---- MODULE Spec2Model ----
(***************************************************************************)
(* Model of the Search component (src/src/components/Search.tsx): the      *)
(* debounced, abortable city-suggestion lookup and its dropdown state.     *)
(*                                                                         *)
(* Strings the component computes with (the Query, the place fields) are   *)
(* sequences of one-character strings, so that trim(), encodeURIComponent  *)
(* and join(", ") are computed as the code computes them.  Error messages  *)
(* are opaque TLA+ strings; the JavaScript null of `error` is NullError.   *)
(*                                                                         *)
(* fetch() follows the Fetch Standard: once controller.abort() has been    *)
(* called, a still pending fetch() or res.json() promise rejects with an   *)
(* AbortError, whatever the network does with the request.  The network    *)
(* itself is free: it may answer an aborted request like any other.        *)
(***************************************************************************)
EXTENDS Integers, Sequences, FiniteSets, TLC

(***************************************************************************)
(* Bounds of the model.                                                    *)
(***************************************************************************)
\* number of debounce timers (hence of suggestion requests) ever created
MaxTimers == 2
\* number of blur grace timers ever created
MaxBlurs == 1
\* number of onSelect notifications recorded
MaxPicks == 1

(***************************************************************************)
(* Program constants.                                                      *)
(***************************************************************************)
\* Search.tsx:52  input.trim().length < 2
MinChars == 2
\* Search.tsx:73  &count=5
SuggestCount == 5

\* the JavaScript null held by the `error` state
NullError == "<null>"

(***************************************************************************)
(* Strings.                                                                *)
(***************************************************************************)
\* the values onChange delivers: "", "P", "Pa", "Par" and " P " (three
\* characters, one after trimming); " " is the white space trim() removes
TypedQueries ==
    { <<>>, <<"P">>, <<"P", "a">>, <<"P", "a", "r">>, <<" ", "P", " ">> }

IsWhiteSpace(c) == c = " "

RECURSIVE TrimStart(_)
TrimStart(s) ==
    IF s = <<>> THEN <<>>
    ELSE IF IsWhiteSpace(Head(s)) THEN TrimStart(Tail(s)) ELSE s

RECURSIVE TrimEnd(_)
TrimEnd(s) ==
    IF s = <<>> THEN <<>>
    ELSE IF IsWhiteSpace(s[Len(s)]) THEN TrimEnd(SubSeq(s, 1, Len(s) - 1)) ELSE s

\* String.prototype.trim
Trim(s) == TrimEnd(TrimStart(s))

\* TooShort without the trim()
TooShort_NoTrim(s) == Len(s) < MinChars

\* the length guard of the effect
TooShort(s) == Len(Trim(s)) < MinChars

\* encodeURIComponent on the characters that occur: letters are kept, the
\* space and the comma are percent-encoded
EncodeChar(c) ==
    IF c = " " THEN <<"%", "2", "0">>
    ELSE IF c = "," THEN <<"%", "2", "C">>
    ELSE <<c>>

RECURSIVE EncodeURIComponent(_)
EncodeURIComponent(s) ==
    IF s = <<>> THEN <<>>
    ELSE EncodeChar(Head(s)) \o EncodeURIComponent(Tail(s))

\* the q the collaborator reads from the URL: percent-decoding of the
\* escapes encodeURIComponent produces
RECURSIVE DecodeQueryParam(_)
DecodeQueryParam(s) ==
    IF s = <<>> THEN <<>>
    ELSE IF Head(s) = "%" /\ Len(s) >= 3
         THEN (IF SubSeq(s, 2, 3) = <<"2", "0">> THEN <<" ">>
               ELSE IF SubSeq(s, 2, 3) = <<"2", "C">> THEN <<",">>
               ELSE SubSeq(s, 1, 3))
              \o DecodeQueryParam(SubSeq(s, 4, Len(s)))
         ELSE <<Head(s)>> \o DecodeQueryParam(Tail(s))

(***************************************************************************)
(* Places.                                                                 *)
(***************************************************************************)
\* region?: string | null
RegionNull == [tag |-> "null", str |-> <<>>]
RegionUndefined == [tag |-> "undefined", str |-> <<>>]
RegionStr(s) == [tag |-> "string", str |-> s]

MkPlace(city, region, country, lat) ==
    [city |-> city, region |-> region, country |-> country,
     latitude |-> lat, longitude |-> 2, timezone |-> "Europe/Paris"]

PlaceA == MkPlace(<<"P">>, RegionNull, <<"F">>, 48)
PlaceB == MkPlace(<<"P">>, RegionStr(<<"R">>), <<"F">>, 33)
PlaceC == MkPlace(<<"P">>, RegionUndefined, <<"F">>, 36)
PlaceD == MkPlace(<<"P", "P">>, RegionStr(<<>>), <<"F">>, 39)

\* the bodies a 200 answer carries
ResultLists == { <<>>, <<PlaceB, PlaceA>>, <<PlaceC, PlaceD, PlaceC>> }

\* region ?? undefined
NullishToUndefined(r) == IF r.tag = "null" THEN RegionUndefined ELSE r

\* Boolean(x) for a string, null or undefined: only a non-empty string is truthy
Truthy(part) == part.tag = "string" /\ part.str # <<>>

RECURSIVE FilterTruthy(_)
FilterTruthy(parts) ==
    IF parts = <<>> THEN <<>>
    ELSE IF Truthy(Head(parts))
         THEN <<Head(parts).str>> \o FilterTruthy(Tail(parts))
         ELSE FilterTruthy(Tail(parts))

RECURSIVE Join(_, _)
Join(strs, sep) ==
    IF strs = <<>> THEN <<>>
    ELSE IF Len(strs) = 1 THEN Head(strs)
    ELSE Head(strs) \o sep \o Join(Tail(strs), sep)

\* formatPlace without filter(Boolean): join() prints null and undefined as ""
formatPlace_NoFilter(p) == Join(<<p.city, p.region.str, p.country>>, <<",", " ">>)

\* [p.city, p.region ?? undefined, p.country].filter(Boolean).join(", ")
formatPlace(p) ==
    Join(FilterTruthy(<<RegionStr(p.city), NullishToUndefined(p.region),
                        RegionStr(p.country)>>),
         <<",", " ">>)

RECURSIVE Elements(_)
Elements(list) ==
    IF list = <<>> THEN {} ELSE {Head(list)} \cup Elements(Tail(list))

(***************************************************************************)
(* State.                                                                  *)
(***************************************************************************)
VARIABLES
    input,           \* useState("")            the Query
    results,         \* useState<Place[]>([])
    isOpen,          \* useState(false)
    isLoading,       \* useState(false)
    error,           \* useState<string | null>(null)
    abortRef,        \* abortRef.current: index in reqs of the controller's request, 0 for null
    timers,          \* pending debounce timers, each with the input its closure captured
    timersMade,      \* number of debounce timers created (the id of the newest)
    cleanup,         \* timer id held by the registered effect cleanup, 0 when none is registered
    reqs,            \* the suggestion requests in order of issue
    blurTimers,      \* ids of the pending blur grace timers
    blursMade,       \* number of blur timers created (the id of the newest)
    blurTimeoutRef,  \* blurTimeoutRef.current, 0 for null
    mounted,         \* the component is mounted
    focused,         \* the input element has the focus
    selected,        \* the places onSelect was called with, in order
    lastEvent        \* history: the step taken last, <<kind, id>>

searchVars ==
    <<input, results, isOpen, isLoading, error, abortRef, timers, timersMade,
      cleanup, reqs, blurTimers, blursMade, blurTimeoutRef, mounted, focused,
      selected, lastEvent>>

\* State of one call of GET /api/geocode (src/src/app/api/geocode/route.ts).
VARIABLES
    geoPc,           \* where the handler is: "idle", "received", "awaiting", "done"
    geoReq,          \* the q, count and countryCode parameters of req.url
    geoUpstream,     \* what Open-Meteo answers to the call
    geoForwarded,    \* paramsURL, the parameters sent to Open-Meteo
    geoRes           \* the response of the handler

geoVars == <<geoPc, geoReq, geoUpstream, geoForwarded, geoRes>>

\* what is not the Search component
\* the history store behind /api/history and the last answer of the route
VARIABLES histStore, histClock, histRes
histVars == <<histStore, histClock, histRes>>

\* the WeatherCard's hourly data, hour mode and memoized window
VARIABLES wxHours, wxCurrent, wxNow, wxMode, wxWindow, wxNowIndex, wxPc
wxVars == <<wxHours, wxCurrent, wxNow, wxMode, wxWindow, wxNowIndex, wxPc>>

\* the HistoryCard: the place it is given, the list it shows and its requests
\* to /api/history
VARIABLES hcPlace, hcItems, hcError, hcReqs
hcVars == <<hcPlace, hcItems, hcError, hcReqs>>

\* the PhotosCard: the place it is given, its photos, the gallery index and
\* its requests to /api/photos
VARIABLES phPlace, phItems, phIdx, phLoading, phError, phAbortRef, phReqs, phChanges
phVars == <<phPlace, phItems, phIdx, phLoading, phError, phAbortRef, phReqs, phChanges>>

otherVars == <<geoVars, histVars, wxVars, hcVars, phVars>>

vars == <<searchVars, otherVars>>

\* an optional string: searchParams.get() gives null for an absent parameter
Absent == [present |-> FALSE, str |-> <<>>]
Present(str) == [present |-> TRUE, str |-> str]

NoUpstream == [kind |-> "none", isArray |-> FALSE, raw |-> <<>>]
NoForwarded == [sent |-> FALSE, name |-> <<>>, count |-> "", countryCode |-> Absent]
NoResponse == [status |-> 0, places |-> <<>>]

\* no call of the route is in progress
GeoIdle ==
    /\ geoPc = "idle"
    /\ geoReq = [q |-> Absent, count |-> Absent, countryCode |-> Absent]
    /\ geoUpstream = NoUpstream
    /\ geoForwarded = NoForwarded
    /\ geoRes = NoResponse

\* an empty store (mongodb-memory-server starts empty) and no answer yet
NoHistRes == [op |-> "none", status |-> 0, items |-> <<>>]

HistIdle ==
    /\ histStore = <<>>
    /\ histClock = 0
    /\ histRes = NoHistRes

\* the place prop of a card before any selection, and an items state that
\* holds no list (null, or undefined read from a body without items)
NoPlace == [none |-> TRUE, place |-> <<>>]
SomePlace(p) == [none |-> FALSE, place |-> p]
NoList == [defined |-> FALSE, list |-> <<>>]
List(l) == [defined |-> TRUE, list |-> l]

\* no HistoryCard is mounted
HcIdle ==
    /\ hcPlace = NoPlace
    /\ hcItems = List(<<>>)
    /\ hcError = NullError
    /\ hcReqs = <<>>

\* no PhotosCard is mounted
PhIdle ==
    /\ phPlace = NoPlace
    /\ phItems = NoList
    /\ phIdx = 0
    /\ phLoading = FALSE
    /\ phError = NullError
    /\ phAbortRef = 0
    /\ phReqs = <<>>
    /\ phChanges = 0

\* a WeatherCard without data
WxIdle ==
    /\ wxHours = <<>>
    /\ wxCurrent = [present |-> FALSE, time |-> 0]
    /\ wxNow = 0
    /\ wxMode = "next24"
    /\ wxWindow = <<>>
    /\ wxNowIndex = -1
    /\ wxPc = "idle"

\* the SuggestionState of the spec
SuggestionState ==
    [results |-> results, isOpen |-> isOpen, isLoading |-> isLoading, error |-> error]

SetSuggestionState(st) ==
    /\ results' = st.results
    /\ isOpen' = st.isOpen
    /\ isLoading' = st.isLoading
    /\ error' = st.error

SearchInit ==
    /\ input = <<>>
    /\ results = <<>>
    /\ isOpen = FALSE
    /\ isLoading = FALSE
    /\ error = NullError
    /\ abortRef = 0
    /\ timers = {}
    /\ timersMade = 0
    /\ cleanup = 0
    /\ reqs = <<>>
    /\ blurTimers = {}
    /\ blursMade = 0
    /\ blurTimeoutRef = 0
    /\ mounted = TRUE
    /\ focused = FALSE
    /\ selected = <<>>
    /\ lastEvent = <<"init", 0>>

Init == SearchInit /\ GeoIdle /\ HistIdle /\ WxIdle /\ HcIdle /\ PhIdle

(***************************************************************************)
(* The effect on [input].                                                  *)
(***************************************************************************)
\* ClearTimeout with the clearTimeout call left out
ClearTimeout_Never(ts, id) == ts

\* clearTimeout(timer)
ClearTimeout(ts, id) == {t \in ts : t.id # id}

\* Abort with the abort() calls left out
Abort_Never(rs, ref) == rs

\* abortRef.current?.abort()
Abort(rs, ref) ==
    IF ref = 0 THEN rs ELSE [rs EXCEPT ![ref].aborted = TRUE]

\* CleanupTimers without the clearTimeout() of the cleanup
CleanupTimers_NoClear == timers

\* CleanupReqs without the abort() of the cleanup
CleanupReqs_NoAbort == reqs

\* the cleanup the last effect run registered (none after the guard branch):
\* clearTimeout(timer); abortRef.current?.abort()
CleanupTimers == IF cleanup = 0 THEN timers ELSE ClearTimeout(timers, cleanup)
CleanupReqs == IF cleanup = 0 THEN reqs ELSE Abort(reqs, abortRef)

\* the guard branch: too short, reset and hide the dropdown
Cleared == [results |-> <<>>, isOpen |-> FALSE, isLoading |-> FALSE, error |-> NullError]

\* Searching that also opens the dropdown to show "Searching..."
Searching_Opens(st) == [st EXCEPT !.isLoading = TRUE, !.error = NullError, !.isOpen = TRUE]

\* Searching without setError(null)
Searching_KeepError(st) == [st EXCEPT !.isLoading = TRUE]

\* Searching without setIsLoading(true)
Searching_NoLoading(st) == [st EXCEPT !.error = NullError]

\* setIsLoading(true); setError(null)
Searching(st) == [st EXCEPT !.isLoading = TRUE, !.error = NullError]

\* the state the effect body leaves for the input v, entered in state st
EffectState(v, st) == IF TooShort(v) THEN Cleared ELSE Searching(st)

\* the previous run's cleanup, then the effect body for the new input v
RunEffect(v, st) ==
    /\ TooShort(v) \/ timersMade < MaxTimers
    /\ input' = v
    /\ SetSuggestionState(EffectState(v, st))
    /\ reqs' = CleanupReqs
    /\ IF TooShort(v)
       THEN /\ timers' = CleanupTimers
            /\ cleanup' = 0
            /\ timersMade' = timersMade
       ELSE /\ timers' = CleanupTimers \cup {[id |-> timersMade + 1, input |-> v]}
            /\ cleanup' = timersMade + 1
            /\ timersMade' = timersMade + 1
    /\ UNCHANGED abortRef

\* onChange={(e) => setInput(e.target.value)}
Type(v) ==
    /\ mounted /\ focused
    /\ v # input
    /\ RunEffect(v, SuggestionState)
    /\ lastEvent' = <<"Type", 0>>
    /\ UNCHANGED otherVars
    /\ UNCHANGED <<blurTimers, blursMade, blurTimeoutRef, mounted, focused, selected>>

(***************************************************************************)
(* The debounce timer callback: the request and the handling of its        *)
(* outcome.                                                                *)
(***************************************************************************)
\* fetch(`/api/geocode?q=${encodeURIComponent(input)}&count=5`, {signal})
\* phase: "fetch" awaiting fetch(), "json" awaiting res.json(), "done"
\* out: how the callback ended and the data it applied, "pending" until then
\* kind: "abort", "400", "404", "notok" (with the status), "ok" (with the data),
\* "throw"
Outcome(kind, status, data) == [kind |-> kind, status |-> status, data |-> data]

NewRequest(v) ==
    [q |-> EncodeURIComponent(v), count |-> SuggestCount, aborted |-> FALSE,
     phase |-> "fetch", out |-> Outcome("pending", 0, <<>>)]

\* NewAbortRef without the assignment to abortRef.current
NewAbortRef_Keep(rs) == abortRef

\* const controller = new AbortController(); abortRef.current = controller
\* (a controller is named by the index of the request that carries its signal)
NewAbortRef(rs) == Len(rs) + 1

\* the debounce timer t fires: abort the request in flight, issue a new one
TimerFire(t) ==
    /\ t \in timers
    /\ timers' = timers \ {t}
    /\ reqs' = Append(Abort(reqs, abortRef), NewRequest(t.input))
    /\ abortRef' = NewAbortRef(reqs)
    /\ lastEvent' = <<"TimerFire", Len(reqs) + 1>>
    /\ UNCHANGED otherVars
    /\ UNCHANGED <<input, results, isOpen, isLoading, error, timersMade, cleanup,
                   blurTimers, blursMade, blurTimeoutRef, mounted, focused, selected>>

\* the statuses the collaborator answers with
Statuses == {200, 400, 404, 500, 502}

\* res.ok
Ok(status) == status >= 200 /\ status <= 299

\* SearchFailed with the message of the catch branch
SearchFailed_Generic(status) == "Network error. Please try again."

\* `Search failed (${res.status}).`
SearchFailed(status) == "Search failed (" \o ToString(status) \o ")."

\* res.status === 400
On400 ==
    [results |-> <<>>, isOpen |-> FALSE, isLoading |-> FALSE,
     error |-> "Type at least 2 letters."]

\* On404 without setIsLoading(false)
On404_StillLoading ==
    [results |-> <<>>, isOpen |-> TRUE, isLoading |-> isLoading, error |-> NullError]

\* On404 when the 404 test is missing: the answer falls into the !res.ok branch
On404_AsFailure ==
    [results |-> <<>>, isOpen |-> TRUE, isLoading |-> FALSE,
     error |-> "Search failed (404)."]

\* res.status === 404: empty set, not an error
On404 ==
    [results |-> <<>>, isOpen |-> TRUE, isLoading |-> FALSE, error |-> NullError]

\* OnNotOk without setResults([])
OnNotOk_KeepResults(status) ==
    [results |-> results, isOpen |-> TRUE, isLoading |-> FALSE,
     error |-> SearchFailed(status)]

\* !res.ok
OnNotOk(status) ==
    [results |-> <<>>, isOpen |-> TRUE, isLoading |-> FALSE,
     error |-> SearchFailed(status)]

\* OnData with the list turned around
OnData_Reversed(data) ==
    [results |-> [i \in 1..Len(data) |-> data[Len(data) + 1 - i]],
     isOpen |-> TRUE, isLoading |-> FALSE, error |-> NullError]

\* setResults(data) after res.json()
OnData(data) ==
    [results |-> data, isOpen |-> TRUE, isLoading |-> FALSE, error |-> NullError]

\* OnThrow without setIsLoading(false)
OnThrow_StillLoading ==
    [results |-> <<>>, isOpen |-> TRUE, isLoading |-> isLoading,
     error |-> "Network error. Please try again."]

\* catch of an error that is not an AbortError
OnThrow ==
    [results |-> <<>>, isOpen |-> TRUE, isLoading |-> FALSE,
     error |-> "Network error. Please try again."]

\* OnAbort when the AbortError test is missing: the catch surfaces the error
OnAbort_AsFailure(st) ==
    [results |-> <<>>, isOpen |-> TRUE, isLoading |-> FALSE,
     error |-> "Network error. Please try again."]

\* catch of an AbortError: return, no setter is called
OnAbort(st) == st

\* the callback of request r ends with outcome out
Finish(r, kind, status, data) ==
    reqs' = [reqs EXCEPT ![r].phase = "done", ![r].out = Outcome(kind, status, data)]

\* what does not belong to the callback of a request
RequestFrame ==
    UNCHANGED <<input, abortRef, timers, timersMade, cleanup, blurTimers, blursMade,
                blurTimeoutRef, mounted, focused, selected>>

\* await fetch() of request r settles: rejected with AbortError when its signal
\* is aborted, otherwise resolved with the status the network delivers
FetchResolves(r, status) ==
    /\ r \in 1..Len(reqs) /\ reqs[r].phase = "fetch"
    /\ status \in Statuses
    /\ IF reqs[r].aborted
       THEN /\ Finish(r, "abort", 0, <<>>)
            /\ SetSuggestionState(OnAbort(SuggestionState))
       ELSE IF status = 400
       THEN /\ Finish(r, "400", status, <<>>)
            /\ SetSuggestionState(On400)
       ELSE IF status = 404
       THEN /\ Finish(r, "404", status, <<>>)
            /\ SetSuggestionState(On404)
       ELSE IF ~Ok(status)
       THEN /\ Finish(r, "notok", status, <<>>)
            /\ SetSuggestionState(OnNotOk(status))
       ELSE /\ reqs' = [reqs EXCEPT ![r].phase = "json"]
            /\ UNCHANGED <<results, isOpen, isLoading, error>>
    /\ lastEvent' = <<"FetchResolves", r>>
    /\ UNCHANGED otherVars
    /\ RequestFrame

\* await fetch() of request r rejects with a transport failure (or with the
\* AbortError when its signal is aborted)
FetchRejects(r) ==
    /\ r \in 1..Len(reqs) /\ reqs[r].phase = "fetch"
    /\ IF reqs[r].aborted
       THEN /\ Finish(r, "abort", 0, <<>>)
            /\ SetSuggestionState(OnAbort(SuggestionState))
       ELSE /\ Finish(r, "throw", 0, <<>>)
            /\ SetSuggestionState(OnThrow)
    /\ lastEvent' = <<"FetchRejects", r>>
    /\ UNCHANGED otherVars
    /\ RequestFrame

\* await res.json() of request r resolves with data (AbortError when aborted)
JsonResolves(r, data) ==
    /\ r \in 1..Len(reqs) /\ reqs[r].phase = "json"
    /\ data \in ResultLists
    /\ IF reqs[r].aborted
       THEN /\ Finish(r, "abort", 0, <<>>)
            /\ SetSuggestionState(OnAbort(SuggestionState))
       ELSE /\ Finish(r, "ok", 200, data)
            /\ SetSuggestionState(OnData(data))
    /\ lastEvent' = <<"JsonResolves", r>>
    /\ UNCHANGED otherVars
    /\ RequestFrame

\* await res.json() of request r rejects: the body is not JSON or the
\* connection broke (AbortError when aborted)
JsonRejects(r) ==
    /\ r \in 1..Len(reqs) /\ reqs[r].phase = "json"
    /\ IF reqs[r].aborted
       THEN /\ Finish(r, "abort", 0, <<>>)
            /\ SetSuggestionState(OnAbort(SuggestionState))
       ELSE /\ Finish(r, "throw", 0, <<>>)
            /\ SetSuggestionState(OnThrow)
    /\ lastEvent' = <<"JsonRejects", r>>
    /\ UNCHANGED otherVars
    /\ RequestFrame

(***************************************************************************)
(* Selection, focus, blur, unmount.                                        *)
(***************************************************************************)
\* the <li> of place p is rendered
Rendered(p) ==
    /\ isOpen /\ ~isLoading /\ error = NullError
    /\ p \in Elements(results)

\* PickLabel with the city alone
PickLabel_CityOnly(p) == p.city

\* the text handlePick puts in the input: setInput(formatPlace(p))
PickLabel(p) == formatPlace(p)

\* onClick={() => handlePick(p)}: setInput(formatPlace(p)); setIsOpen(false);
\* onSelect(p); the effect runs when the input changed
handlePick(p) ==
    /\ mounted
    /\ Rendered(p)
    /\ Len(selected) < MaxPicks
    /\ IF PickLabel(p) = input
       THEN /\ isOpen' = FALSE
            /\ UNCHANGED <<input, results, isLoading, error, abortRef, timers,
                           timersMade, cleanup, reqs>>
       ELSE RunEffect(PickLabel(p), [SuggestionState EXCEPT !.isOpen = FALSE])
    /\ selected' = Append(selected, p)
    /\ lastEvent' = <<"handlePick", 0>>
    /\ UNCHANGED otherVars
    /\ UNCHANGED <<blurTimers, blursMade, blurTimeoutRef, mounted, focused>>

\* blurTimeoutRef.current = window.setTimeout(() => setIsOpen(false), 100)
handleBlur ==
    /\ mounted /\ focused
    /\ blursMade < MaxBlurs
    /\ blursMade' = blursMade + 1
    /\ blurTimers' = blurTimers \cup {blursMade + 1}
    /\ blurTimeoutRef' = blursMade + 1
    /\ focused' = FALSE
    /\ lastEvent' = <<"handleBlur", 0>>
    /\ UNCHANGED otherVars
    /\ UNCHANGED <<input, results, isOpen, isLoading, error, abortRef, timers,
                   timersMade, cleanup, reqs, mounted, selected>>

\* the blur grace timer b fires: setIsOpen(false)
BlurTimerFire(b) ==
    /\ b \in blurTimers
    /\ blurTimers' = blurTimers \ {b}
    /\ isOpen' = FALSE
    /\ lastEvent' = <<"BlurTimerFire", b>>
    /\ UNCHANGED otherVars
    /\ UNCHANGED <<input, results, isLoading, error, abortRef, timers, timersMade,
                   cleanup, reqs, blursMade, blurTimeoutRef, mounted, focused, selected>>

\* FocusOpen without the test of results.length
FocusOpen_Always == TRUE

\* if (results.length > 0) setIsOpen(true)
FocusOpen == IF Len(results) > 0 THEN TRUE ELSE isOpen

\* FocusBlurTimers without the clearTimeout call
FocusBlurTimers_NoClear == blurTimers

\* if (blurTimeoutRef.current) window.clearTimeout(blurTimeoutRef.current)
FocusBlurTimers ==
    IF blurTimeoutRef # 0 THEN blurTimers \ {blurTimeoutRef} ELSE blurTimers

\* onFocus={handleFocus}
handleFocus ==
    /\ mounted /\ ~focused
    /\ isOpen' = FocusOpen
    /\ blurTimers' = FocusBlurTimers
    /\ focused' = TRUE
    /\ lastEvent' = <<"handleFocus", 0>>
    /\ UNCHANGED otherVars
    /\ UNCHANGED <<input, results, isLoading, error, abortRef, timers, timersMade,
                   cleanup, reqs, blursMade, blurTimeoutRef, mounted, selected>>

\* the component unmounts: React runs the registered effect cleanup
Unmount ==
    /\ mounted
    /\ mounted' = FALSE
    /\ focused' = FALSE
    /\ timers' = CleanupTimers
    /\ reqs' = CleanupReqs
    /\ cleanup' = 0
    /\ lastEvent' = <<"Unmount", 0>>
    /\ UNCHANGED otherVars
    /\ UNCHANGED <<input, results, isOpen, isLoading, error, abortRef, timersMade,
                   blurTimers, blursMade, blurTimeoutRef, selected>>

Next ==
    \/ \E v \in TypedQueries : Type(v)
    \/ \E t \in timers : TimerFire(t)
    \/ \E r \in 1..Len(reqs) : \E status \in Statuses : FetchResolves(r, status)
    \/ \E r \in 1..Len(reqs) : FetchRejects(r)
    \/ \E r \in 1..Len(reqs) : \E data \in ResultLists : JsonResolves(r, data)
    \/ \E r \in 1..Len(reqs) : JsonRejects(r)
    \/ \E p \in Elements(results) : handlePick(p)
    \/ handleBlur
    \/ \E b \in blurTimers : BlurTimerFire(b)
    \/ handleFocus
    \/ Unmount

Spec == Init /\ [][Next]_vars

\* a pending debounce timer fires
SomeTimerFires == \E t \in timers : TimerFire(t)

\* a request that has not settled settles
SomeRequestSettles ==
    \E r \in 1..Len(reqs) :
       \/ \E status \in Statuses : FetchResolves(r, status)
       \/ FetchRejects(r)
       \/ \E data \in ResultLists : JsonResolves(r, data)
       \/ JsonRejects(r)

\* the steps of a Search that stays mounted
MountedNext ==
    \/ \E v \in TypedQueries : Type(v)
    \/ SomeTimerFires
    \/ SomeRequestSettles
    \/ \E p \in Elements(results) : handlePick(p)
    \/ handleBlur
    \/ \E b \in blurTimers : BlurTimerFire(b)
    \/ handleFocus

\* the browser runs every timer that is not cleared, and every issued
\* request resolves or rejects
SpecFair ==
    Init /\ [][MountedNext]_vars
         /\ WF_vars(SomeTimerFires) /\ WF_vars(SomeRequestSettles)

TypeOK ==
    /\ isOpen \in BOOLEAN /\ isLoading \in BOOLEAN
    /\ mounted \in BOOLEAN /\ focused \in BOOLEAN
    /\ abortRef \in 0..Len(reqs)
    /\ Len(reqs) <= timersMade /\ timersMade <= MaxTimers
    /\ Len(selected) <= MaxPicks

(***************************************************************************)
(* GET /api/geocode (src/src/app/api/geocode/route.ts).                    *)
(***************************************************************************)
\* Search.tsx and route.ts declare the same Place; Open-Meteo's result has
\* name, admin1?, admin2?, country, latitude, longitude, timezone?
RawResult(name, admin1, admin2, lat, timezone) ==
    [name |-> name, admin1 |-> admin1, admin2 |-> admin2, country |-> <<"F">>,
     latitude |-> lat, longitude |-> 2, timezone |-> timezone]

RawParis == RawResult(<<"P">>, RegionStr(<<"R">>), RegionStr(<<"S">>), 48, Present(<<"E">>))
RawPau == RawResult(<<"P", "a">>, RegionNull, RegionStr(<<"S">>), 43, Present(<<"E">>))
RawPort == RawResult(<<"P", "o">>, RegionUndefined, RegionUndefined, 41, Absent)

\* data.results of the upstream answer, when it is an array
RawLists ==
    { <<>>, <<RawParis>>, <<RawPau, RawParis>>, <<RawPort, RawPau, RawPort>> }

\* the q, count and countryCode a caller can put in the URL
GeoQueries ==
    { Absent, Present(<<>>), Present(<<"P">>), Present(<<" ", "P", " ">>),
      Present(<<"P", "a">>), Present(<<" ", "P", "a", " ">>),
      Present(<<"P", ",", " ", "F">>) }

GeoCounts ==
    { Absent, Present(<<>>), Present(<<"a", "b", "c">>), Present(<<"5", "x">>),
      Present(<<"0">>), Present(<<"1">>), Present(<<"7">>), Present(<<" ", "7">>),
      Present(<<"1", "0">>), Present(<<"1", "1">>), Present(<<"-", "3">>),
      Present(<<"9", "9", "9", "9", "9">>) }

Digits == <<"0", "1", "2", "3", "4", "5", "6", "7", "8", "9">>

DigitValue(c) == (CHOOSE i \in 1..10 : Digits[i] = c) - 1

RECURSIVE DigitsValue(_, _)
DigitsValue(ds, acc) ==
    IF ds = <<>> THEN acc
    ELSE DigitsValue(Tail(ds), 10 * acc + DigitValue(Head(ds)))

\* Number(text) for the texts that occur: white space is trimmed, the empty
\* text is 0, an optional sign and decimal digits are the integer, anything
\* else is NaN
StrToNumber(text) ==
    LET t == Trim(text)
        signed == t # <<>> /\ Head(t) \in {"-", "+"}
        ds == IF signed THEN Tail(t) ELSE t
    IN  IF t = <<>> THEN [nan |-> FALSE, val |-> 0]
        ELSE IF ds = <<>> \/ \E i \in 1..Len(ds) : \A d \in 1..10 : Digits[d] # ds[i]
        THEN [nan |-> TRUE, val |-> 0]
        ELSE [nan |-> FALSE,
              val |-> IF Head(t) = "-" THEN 0 - DigitsValue(ds, 0)
                      ELSE DigitsValue(ds, 0)]

Min(a, b) == IF a < b THEN a ELSE b

\* Number(countFound) || 5: NaN and 0 are falsy
NumberOr5(countParam) ==
    LET n == StrToNumber(IF countParam.present THEN countParam.str ELSE <<"5">>)
    IN  IF n.nan \/ n.val = 0 THEN 5 ELSE n.val

\* GeoCount without Math.max and Math.min
GeoCount_NoClamp(countParam) == NumberOr5(countParam)

\* const count = Math.max(1, Math.min(10, Number(countFound) || 5))
GeoCount(countParam) ==
    LET capped == Min(10, NumberOr5(countParam))
    IN  IF 1 > capped THEN 1 ELSE capped

\* toUpperCase on the letters that occur
UpperChar(c) == IF c = "f" THEN "F" ELSE IF c = "r" THEN "R" ELSE c
ToUpperCase(str) == [i \in 1..Len(str) |-> UpperChar(str[i])]

\* searchParams.get("countryCode")?.toUpperCase() || ""
GeoCountryCode(param) == IF param.present THEN ToUpperCase(param.str) ELSE <<>>

\* searchParams.get("q")?.trim()
GeoQ(param) == IF param.present THEN Present(Trim(param.str)) ELSE Absent

\* !q || q.length < 2
GeoBadRequest(q) == ~q.present \/ q.str = <<>> \/ Len(q.str) < 2

\* the handler up to the call of the upstream API: read the parameters,
\* answer 400 or build paramsURL and call Open-Meteo
GeoValidate ==
    /\ geoPc = "received"
    /\ IF GeoBadRequest(GeoQ(geoReq.q))
       THEN /\ geoRes' = [status |-> 400, places |-> <<>>]
            /\ geoPc' = "done"
            /\ UNCHANGED geoForwarded
       ELSE /\ geoForwarded' =
                 [sent |-> TRUE,
                  name |-> GeoQ(geoReq.q).str,
                  count |-> ToString(GeoCount(geoReq.count)),
                  countryCode |->
                      IF GeoCountryCode(geoReq.countryCode) # <<>>
                      THEN Present(GeoCountryCode(geoReq.countryCode))
                      ELSE Absent]
            /\ geoPc' = "awaiting"
            /\ UNCHANGED geoRes
    /\ UNCHANGED <<geoReq, geoUpstream, searchVars, histVars, wxVars, hcVars, phVars>>

\* what the upstream call can end with: a rejected fetch, a status that is
\* not ok, or a body whose results is an array or not
GeoUpstreams ==
    {[kind |-> "throws", isArray |-> FALSE, raw |-> <<>>],
     [kind |-> "notok", isArray |-> FALSE, raw |-> <<>>],
     [kind |-> "ok", isArray |-> FALSE, raw |-> <<>>]}
    \cup {[kind |-> "ok", isArray |-> TRUE, raw |-> l] : l \in RawLists}

\* r.admin1 ?? r.admin2 ?? null
GeoRegion(r) ==
    IF r.admin1.tag = "string" THEN r.admin1
    ELSE IF r.admin2.tag = "string" THEN r.admin2
    ELSE RegionNull

\* the Place made of one raw result
Normalize(r) ==
    [city |-> r.name, region |-> GeoRegion(r), country |-> r.country,
     latitude |-> r.latitude, longitude |-> r.longitude,
     timezone |-> IF r.timezone.present THEN r.timezone.str ELSE <<"U", "T", "C">>]

\* rawData.map(...)
NormalizeAll(raw) == [i \in 1..Len(raw) |-> Normalize(raw[i])]

\* GeoAnswer without the not_found branch
GeoAnswer_No404(places) == [status |-> 200, places |-> places]

\* if (places.length === 0) 404, else the places with the default status 200
GeoAnswer(places) ==
    IF Len(places) = 0 THEN [status |-> 404, places |-> <<>>]
    ELSE [status |-> 200, places |-> places]

\* the upstream call ends with up: 502 when it is not ok, else normalize and
\* answer; a rejected fetch is not caught, the framework answers 500
GeoUpstreamAnswers(up) ==
    /\ geoPc = "awaiting"
    /\ up \in GeoUpstreams
    /\ geoUpstream' = up
    /\ geoRes' =
         IF up.kind = "throws" THEN [status |-> 500, places |-> <<>>]
         ELSE IF up.kind = "notok" THEN [status |-> 502, places |-> <<>>]
         ELSE GeoAnswer(NormalizeAll(IF up.isArray THEN up.raw ELSE <<>>))
    /\ geoPc' = "done"
    /\ UNCHANGED <<geoReq, geoForwarded, searchVars, histVars, wxVars, hcVars, phVars>>

\* one call of the route, for every URL of the domains above
GeoInit ==
    /\ SearchInit /\ HistIdle /\ WxIdle /\ HcIdle /\ PhIdle
    /\ geoPc = "received"
    /\ geoReq \in [q : GeoQueries, count : GeoCounts,
                    countryCode : { Absent, Present(<<>>), Present(<<"f", "r">>) }]
    /\ geoUpstream = NoUpstream
    /\ geoForwarded = NoForwarded
    /\ geoRes = NoResponse

GeoNext ==
    \/ GeoValidate
    \/ \E up \in GeoUpstreams : GeoUpstreamAnswers(up)

SpecGeocode == GeoInit /\ [][GeoNext]_vars

(***************************************************************************)
(* POST and GET /api/history (src/src/app/api/history/route.ts) over the   *)
(* History collection (src/src/models/History.ts).                         *)
(***************************************************************************)
\* the most POST requests of one behaviour
MaxPosts == 11

\* .limit(10)
HistoryLimit == 10

HistBody(city, region, country) == [city |-> city, region |-> region, country |-> country]

\* a body whose fields need trimming, bodies that fail the check of the
\* route, and a body whose city is blank (it passes the check of the route
\* and fails the schema's required validator after the trim)
HistBodies ==
    { HistBody(Present(<<" ", "P">>), Present(<<"R", " ">>), Present(<<"F">>)),
      HistBody(Absent, Absent, Present(<<"F">>)),
      HistBody(Present(<<"P">>), Absent, Present(<<>>)),
      HistBody(Present(<<" ">>), Present(<<" ">>), Present(<<"F">>)) }

\* !body.city || !body.country
HistBadRequest(body) ==
    \/ ~body.city.present \/ body.city.str = <<>>
    \/ ~body.country.present \/ body.country.str = <<>>

\* body.region?.trim() || null
HistRegion(region) ==
    IF region.present /\ Trim(region.str) # <<>> THEN RegionStr(Trim(region.str))
    ELSE RegionNull

\* the document HistoryModel.create is called with, at time now
HistDoc(id, body, now) ==
    [id |-> id, city |-> Trim(body.city.str), region |-> HistRegion(body.region),
     country |-> Trim(body.country.str), viewedAt |-> now]

\* required: true rejects an empty string
SchemaValid(doc) == doc.city # <<>> /\ doc.country # <<>>

\* time passes; a tick that no stored entry has seen yet is not repeated
HistTick ==
    /\ histStore # <<>>
    /\ histStore[Len(histStore)].viewedAt = histClock
    /\ Len(histStore) < MaxPosts
    /\ histClock' = histClock + 1
    /\ UNCHANGED <<histStore, histRes, searchVars, geoVars, wxVars, hcVars, phVars>>

\* POST: 400 on a body without city or country, 500 when the database or the
\* schema throws, else one new document and 201 with its payload
PostHandled(body, dbOk) ==
    LET doc == HistDoc(Len(histStore) + 1, body, histClock)
       IN  IF ~dbOk
           THEN /\ histRes' = [op |-> "POST", status |-> 500, items |-> <<>>]
                /\ UNCHANGED histStore
           ELSE IF HistBadRequest(body)
           THEN /\ histRes' = [op |-> "POST", status |-> 400, items |-> <<>>]
                /\ UNCHANGED histStore
           ELSE IF ~SchemaValid(doc)
           THEN /\ histRes' = [op |-> "POST", status |-> 500, items |-> <<>>]
                /\ UNCHANGED histStore
           ELSE /\ histStore' = Append(histStore, doc)
                /\ histRes' = [op |-> "POST", status |-> 201, items |-> <<doc>>]

\* one call of POST /api/history
HistPost(body, dbOk) ==
    /\ Len(histStore) < MaxPosts
    /\ PostHandled(body, dbOk)
    /\ UNCHANGED <<histClock, searchVars, geoVars, wxVars, hcVars, phVars>>

\* the order of two documents with the same viewedAt is not specified by the
\* database: insertion order or its reverse
TieOrders == { "natural", "reverse" }

\* document i comes before document j under sort({ viewedAt: -1 })
Before(store, i, j, tie) ==
    \/ store[i].viewedAt > store[j].viewedAt
    \/ /\ store[i].viewedAt = store[j].viewedAt
       /\ IF tie = "natural" THEN i < j ELSE i > j

RECURSIVE SortNewestFirst(_, _, _)
SortNewestFirst(store, remaining, tie) ==
    IF remaining = {} THEN <<>>
    ELSE LET first == CHOOSE i \in remaining :
                         \A j \in remaining \ {i} : Before(store, i, j, tie)
         IN  <<store[first]>> \o SortNewestFirst(store, remaining \ {first}, tie)

\* HistLimit without .limit(10)
HistLimit_None(docs) == docs

\* .limit(10)
HistLimit(docs) == SubSeq(docs, 1, Min(HistoryLimit, Len(docs)))

\* GET: find({}).sort({ viewedAt: -1 }).limit(10), 500 when the database throws
GetHandled(tie, dbOk) ==
    histRes' =
         IF dbOk
         THEN [op |-> "GET", status |-> 200,
               items |-> HistLimit(SortNewestFirst(histStore, DOMAIN histStore, tie))]
         ELSE [op |-> "GET", status |-> 500, items |-> <<>>]

\* one call of GET /api/history
HistGet(tie, dbOk) ==
    /\ tie \in TieOrders
    /\ GetHandled(tie, dbOk)
    /\ UNCHANGED <<histStore, histClock, searchVars, geoVars, wxVars, hcVars, phVars>>

HistInit == SearchInit /\ GeoIdle /\ HistIdle /\ WxIdle /\ HcIdle /\ PhIdle

HistNext ==
    \/ HistTick
    \/ \E body \in HistBodies, dbOk \in BOOLEAN : HistPost(body, dbOk)
    \/ \E tie \in TieOrders, dbOk \in BOOLEAN : HistGet(tie, dbOk)

SpecHistory == HistInit /\ [][HistNext]_vars

(***************************************************************************)
(* The 24-hour window of the WeatherCard                                   *)
(* (src/src/components/WeatherCard.tsx, windowHours useMemo).              *)
(***************************************************************************)
\* an Hour is its timeISO, counted in hours
WxEpoch == 100

\* data.hourly: the route sends at most 24 consecutive hours
HourlyOf(n) == [i \in 1..n |-> WxEpoch + i - 1]

WxHourLists == { HourlyOf(0), HourlyOf(1), HourlyOf(4), HourlyOf(24) }

\* data.current.timeISO: missing, an hour of the list, or an hour outside it
WxCurrents ==
    {[present |-> FALSE, time |-> 0]}
    \cup {[present |-> TRUE, time |-> t] :
            t \in {WxEpoch - 1, WxEpoch, WxEpoch + 3, WxEpoch + 7, WxEpoch + 14, WxEpoch + 23}}

HourModes == { "next24", "history" }

\* the length of the window
WindowLen == 24

\* const back = 6; const forward = 18
back == 6
forward == 18

\* hours[i] for an index outside the array is undefined
UndefinedHour == [defined |-> FALSE, time |-> 0]
DefinedHour(t) == [defined |-> TRUE, time |-> t]

\* a % n of JavaScript: the sign of the result is the sign of a
JsRem(a, n) == IF a >= 0 THEN a % n ELSE 0 - ((0 - a) % n)

\* findIndex, 0-based, over the truth values of the predicate on the
\* entries; -1 when no entry satisfies it
FindIndex(holds) ==
    IF \E i \in 1..Len(holds) : holds[i]
    THEN (CHOOSE i \in 1..Len(holds) :
             holds[i] /\ \A j \in 1..(i - 1) : ~holds[j]) - 1
    ELSE -1

\* the index of "now": the exact match, else the first hour not before
\* Date.now(), else 0
NowIdx(hours, current, now) ==
    LET exact == FindIndex([i \in 1..Len(hours) |-> hours[i] = current.time])
        later == FindIndex([i \in 1..Len(hours) |-> hours[i] >= now])
    IN  IF exact >= 0 THEN exact ELSE IF later >= 0 THEN later ELSE 0

\* hours[(i + hours.length) % hours.length]
wrapGet(hours, i) ==
    LET at == JsRem(i + Len(hours), Len(hours))
    IN  IF at >= 0 THEN DefinedHour(hours[at + 1]) ELSE UndefinedHour

\* hours.slice(0, 24)
Slice24(hours) ==
    [i \in 1..Min(WindowLen, Len(hours)) |-> DefinedHour(hours[i])]

\* the memoized { windowHours, nowIndexInWindow }
Window(hours, current, now, mode) ==
    IF Len(hours) = 0 \/ ~current.present
    THEN [windowHours |-> Slice24(hours), nowIndexInWindow |-> -1]
    ELSE LET idx == NowIdx(hours, current, now)
         IN  IF mode = "next24"
             THEN [windowHours |-> [k \in 1..WindowLen |-> wrapGet(hours, idx + k - 1)],
                   nowIndexInWindow |-> 0]
             ELSE [windowHours |->
                       [k \in 1..(back + forward) |-> wrapGet(hours, idx - back + k - 1)],
                   nowIndexInWindow |-> back]

\* the card renders the data it has received
WxRender ==
    /\ wxPc = "data"
    /\ wxWindow' = Window(wxHours, wxCurrent, wxNow, wxMode).windowHours
    /\ wxNowIndex' = Window(wxHours, wxCurrent, wxNow, wxMode).nowIndexInWindow
    /\ wxPc' = "rendered"
    /\ UNCHANGED <<wxHours, wxCurrent, wxNow, wxMode, searchVars, geoVars, histVars, hcVars,
                   phVars>>

\* the hour mode buttons and the saved preference: setHourMode, and the
\* memo is computed again
WxSetHourMode(mode) ==
    /\ wxPc = "rendered"
    /\ mode \in HourModes
    /\ wxMode' = mode
    /\ wxWindow' = Window(wxHours, wxCurrent, wxNow, mode).windowHours
    /\ wxNowIndex' = Window(wxHours, wxCurrent, wxNow, mode).nowIndexInWindow
    /\ UNCHANGED <<wxHours, wxCurrent, wxNow, wxPc, searchVars, geoVars, histVars, hcVars,
                   phVars>>

\* a card that has received its data and not rendered it yet, in the
\* default hour mode (defaultHourMode = "next24")
WxInit ==
    /\ SearchInit /\ GeoIdle /\ HistIdle /\ HcIdle /\ PhIdle
    /\ wxHours \in WxHourLists
    /\ wxCurrent \in WxCurrents
    /\ wxNow \in { 0, WxEpoch + 2, WxEpoch + 50 }    \* Date.now(), in hours
    /\ wxMode = "next24"
    /\ wxWindow = <<>>
    /\ wxNowIndex = -1
    /\ wxPc = "data"

WxNext ==
    \/ WxRender
    \/ \E mode \in HourModes : WxSetHourMode(mode)

SpecWeather == WxInit /\ [][WxNext]_vars

(***************************************************************************)
(* The Search component against the real collaborator: its requests are    *)
(* answered by GET /api/geocode.                                           *)
(***************************************************************************)
\* what the user types here: the queries above and queries whose white
\* space decides on which side of the threshold they fall
ClientQueries ==
    TypedQueries \cup
    { <<" ", " ">>, <<"P", " ">>, <<" ", "P", "a">>, <<"P", " ", "a">>, <<"P", ",">> }

\* the text of `&count=5`
CountText == <<ToString(SuggestCount)>>

\* the parameters the route reads from the URL of request r
UrlParams(r) ==
    [q |-> Present(DecodeQueryParam(reqs[r].q)),
     count |-> Present(CountText),
     countryCode |-> Absent]

\* the request r reaches the route: a new call of GET
GeoReceive(r) ==
    /\ r \in 1..Len(reqs) /\ reqs[r].phase = "fetch"
    /\ geoPc \in {"idle", "done"}
    /\ geoReq' = UrlParams(r)
    /\ geoPc' = "received"
    /\ geoUpstream' = NoUpstream
    /\ geoForwarded' = NoForwarded
    /\ geoRes' = NoResponse
    /\ UNCHANGED <<searchVars, histVars, wxVars, hcVars, phVars>>

\* the answer of the route to the URL of request r arrives at its fetch()
FetchDelivers(r) ==
    /\ geoPc = "done"
    /\ r \in 1..Len(reqs) /\ geoReq = UrlParams(r)
    /\ FetchResolves(r, geoRes.status)

\* the places of the answer, as the Place[] the client reads
ClientPlaces(places) ==
    [i \in 1..Len(places) |->
        [city |-> places[i].city, region |-> places[i].region,
         country |-> places[i].country, latitude |-> places[i].latitude,
         longitude |-> places[i].longitude, timezone |-> places[i].timezone]]

\* res.json() of request r resolves with the body of the route's answer
JsonDelivers(r) ==
    /\ geoPc = "done" /\ geoRes.status = 200
    /\ r \in 1..Len(reqs) /\ reqs[r].phase = "json" /\ geoReq = UrlParams(r)
    /\ IF reqs[r].aborted
       THEN /\ Finish(r, "abort", 0, <<>>)
            /\ SetSuggestionState(OnAbort(SuggestionState))
       ELSE /\ Finish(r, "ok", 200, ClientPlaces(geoRes.places))
            /\ SetSuggestionState(OnData(ClientPlaces(geoRes.places)))
    /\ lastEvent' = <<"JsonResolves", r>>
    /\ UNCHANGED otherVars
    /\ RequestFrame

ClientServerNext ==
    \/ handleFocus
    \/ \E v \in ClientQueries : Type(v)
    \/ \E t \in timers : TimerFire(t)
    \/ \E r \in 1..Len(reqs) : GeoReceive(r)
    \/ GeoValidate
    \/ \E up \in GeoUpstreams : GeoUpstreamAnswers(up)
    \/ \E r \in 1..Len(reqs) : FetchDelivers(r)
    \/ \E r \in 1..Len(reqs) : JsonDelivers(r)

SpecClientServer == Init /\ [][ClientServerNext]_vars

(***************************************************************************)
(* The HistoryCard (src/src/components/HistoryCard.tsx) against            *)
(* /api/history.                                                           *)
(***************************************************************************)
\* the most place changes of one behaviour
MaxSelects == 2

\* the places the parent selects
HcPlaces == { PlaceA, PlaceB }

\* JSON.stringify({ city, region, country }): an undefined region is left out
\* of the body, null is read as a missing string by region?.trim()
PlaceBody(p) ==
    HistBody(Present(p.city),
             IF p.region.tag = "string" THEN Present(p.region.str) ELSE Absent,
             Present(p.country))

\* a request of the card: "sent" until the route handles it, "answered"
\* while the response travels, "done" when the client is through with it;
\* status, items and doc are those of the route's answer
HcRequest(op, place) ==
    [op |-> op, place |-> place, phase |-> "sent", status |-> 0,
     items |-> <<>>, doc |-> 0]

\* the place prop changes: both effects run, the POST first
HcSelect(p) ==
    /\ p \in HcPlaces
    /\ Len(SelectSeq(hcReqs, LAMBDA m : m.op = "POST")) < MaxSelects
    /\ hcPlace' = SomePlace(p)
    /\ hcReqs' = hcReqs \o <<HcRequest("POST", SomePlace(p)), HcRequest("GET", SomePlace(p))>>
    /\ UNCHANGED <<hcItems, hcError, histVars, searchVars, geoVars, wxVars, phVars>>

\* the route handles the POST m; the card does not read the response
HcServePost(m, dbOk) ==
    /\ m \in 1..Len(hcReqs)
    /\ hcReqs[m].op = "POST" /\ hcReqs[m].phase = "sent"
    /\ PostHandled(PlaceBody(hcReqs[m].place.place), dbOk)
    /\ hcReqs' = [hcReqs EXCEPT ![m].phase = "done",
                                ![m].status = histRes'.status,
                                ![m].doc = IF histRes'.status = 201
                                           THEN histRes'.items[1].id ELSE 0]
    /\ UNCHANGED <<histClock, hcPlace, hcItems, hcError, searchVars, geoVars, wxVars,
                   phVars>>

\* the route handles the GET m
HcServeGet(m, tie, dbOk) ==
    /\ m \in 1..Len(hcReqs)
    /\ hcReqs[m].op = "GET" /\ hcReqs[m].phase = "sent"
    /\ tie \in TieOrders
    /\ GetHandled(tie, dbOk)
    /\ hcReqs' = [hcReqs EXCEPT ![m].phase = "answered",
                                ![m].status = histRes'.status,
                                ![m].items = histRes'.items]
    /\ UNCHANGED <<histStore, histClock, hcPlace, hcItems, hcError, searchVars,
                   geoVars, wxVars, phVars>>

\* setItems(data.items): the body of a 500 answer has no items
HcApplied(m) == IF m.status = 200 THEN List(m.items) ELSE NoList

\* the response of the GET m arrives: res.json(), setItems(data.items)
HcGetArrives(m) ==
    /\ m \in 1..Len(hcReqs)
    /\ hcReqs[m].op = "GET" /\ hcReqs[m].phase = "answered"
    /\ hcItems' = HcApplied(hcReqs[m])
    /\ hcReqs' = [hcReqs EXCEPT ![m].phase = "done"]
    /\ UNCHANGED <<hcPlace, hcError, histVars, searchVars, geoVars, wxVars, phVars>>

\* the fetch of the request m rejects: the POST ignores it, the GET shows
\* the error
HcFetchRejects(m) ==
    /\ m \in 1..Len(hcReqs)
    /\ hcReqs[m].phase = "sent"
    /\ hcReqs' = [hcReqs EXCEPT ![m].phase = "done"]
    /\ hcError' = IF hcReqs[m].op = "GET" THEN "Failed to fetch" ELSE hcError
    /\ UNCHANGED <<hcPlace, hcItems, histVars, searchVars, geoVars, wxVars, phVars>>

\* time passes on the server
HcTick ==
    /\ histStore # <<>>
    /\ histStore[Len(histStore)].viewedAt = histClock
    /\ histClock' = histClock + 1
    /\ UNCHANGED <<histStore, histRes, hcVars, searchVars, geoVars, wxVars, phVars>>

\* the card mounts without a place: the POST effect returns, the GET effect
\* fetches
HcInit ==
    /\ SearchInit /\ GeoIdle /\ HistIdle /\ WxIdle /\ PhIdle
    /\ hcPlace = NoPlace
    /\ hcItems = List(<<>>)
    /\ hcError = NullError
    /\ hcReqs = <<HcRequest("GET", NoPlace)>>

HcNext ==
    \/ \E p \in HcPlaces : HcSelect(p)
    \/ \E m \in 1..Len(hcReqs), dbOk \in BOOLEAN : HcServePost(m, dbOk)
    \/ \E m \in 1..Len(hcReqs), tie \in TieOrders, dbOk \in BOOLEAN : HcServeGet(m, tie, dbOk)
    \/ \E m \in 1..Len(hcReqs) : HcGetArrives(m)
    \/ \E m \in 1..Len(hcReqs) : HcFetchRejects(m)
    \/ HcTick

SpecHistoryCard == HcInit /\ [][HcNext]_vars

(***************************************************************************)
(* The PhotosCard (src/unnamed/part_001).                                  *)
(***************************************************************************)
\* the most changes of the place prop in one behaviour
MaxChanges == 3

\* the places the parent passes, and null
PhPlaces == { NoPlace, SomePlace(PlaceA), SomePlace(PlaceB) }

\* json.items of a 200 answer: photos named by their rank
PhotoLists == { <<>>, <<1>>, <<1, 2, 3>> }

\* the statuses /api/photos answers with
PhStatuses == {200, 400, 500, 502}

\* the message shown for a status that is not a success
PhotosFailed(status) ==
    IF status = 400 THEN "Missing or invalid city."
    ELSE IF status = 500 THEN "Photos unavailable (add UNSPLASH_ACCESS_KEY)."
    ELSE "Photos failed (" \o ToString(status) \o ")."

\* the place prop changes to pl: the cleanup of the last effect aborts its
\* request, then the effect runs: without a place it resets the card, with
\* a place it sets isLoading, clears the error, resets idx and fetches; the
\* items stay what they were
PhPlaceChange(pl) ==
    /\ pl \in PhPlaces
    /\ pl # phPlace
    /\ phChanges < MaxChanges
    /\ phChanges' = phChanges + 1
    /\ phPlace' = pl
    /\ phIdx' = 0
    /\ phError' = NullError
    /\ IF pl.none
       THEN /\ phItems' = NoList
            /\ phLoading' = FALSE
            /\ phReqs' = Abort(phReqs, phAbortRef)
            /\ UNCHANGED phAbortRef
       ELSE /\ phLoading' = TRUE
            /\ phReqs' = Append(Abort(phReqs, phAbortRef),
                                [place |-> pl, aborted |-> FALSE, done |-> FALSE])
            /\ phAbortRef' = Len(phReqs) + 1
            /\ UNCHANGED phItems
    /\ UNCHANGED <<searchVars, geoVars, histVars, wxVars, hcVars>>

\* the request r is answered: an aborted request ends in the ignored
\* AbortError; a 200 sets the items and ends the loading, idx is not
\* touched; any other status shows its message and drops the items
PhFetchResolves(r, status, photos) ==
    /\ r \in 1..Len(phReqs) /\ ~phReqs[r].done
    /\ status \in PhStatuses /\ photos \in PhotoLists
    /\ phReqs' = [phReqs EXCEPT ![r].done = TRUE]
    /\ IF phReqs[r].aborted
       THEN UNCHANGED <<phItems, phLoading, phError>>
       ELSE IF status = 200
       THEN /\ phItems' = List(photos)
            /\ phLoading' = FALSE
            /\ UNCHANGED phError
       ELSE /\ phItems' = NoList
            /\ phLoading' = FALSE
            /\ phError' = PhotosFailed(status)
    /\ UNCHANGED <<phPlace, phIdx, phAbortRef, phChanges, searchVars, geoVars,
                   histVars, wxVars, hcVars>>

\* the fetch of request r rejects
PhFetchRejects(r) ==
    /\ r \in 1..Len(phReqs) /\ ~phReqs[r].done
    /\ phReqs' = [phReqs EXCEPT ![r].done = TRUE]
    /\ IF phReqs[r].aborted
       THEN UNCHANGED <<phItems, phLoading, phError>>
       ELSE /\ phItems' = NoList
            /\ phLoading' = FALSE
            /\ phError' = "Failed to fetch"
    /\ UNCHANGED <<phPlace, phIdx, phAbortRef, phChanges, searchVars, geoVars,
                   histVars, wxVars, hcVars>>

\* setIdx((i) => (i + delta + items.length) % items.length)
Moved(i, delta, n) == JsRem(i + delta + n, n)

\* move(delta), from the buttons or the arrow keys: nothing without items
PhMove(delta) ==
    /\ delta \in {-1, 1}
    /\ phItems.defined /\ Len(phItems.list) > 0
    /\ phIdx' = Moved(phIdx, delta, Len(phItems.list))
    /\ UNCHANGED <<phPlace, phItems, phLoading, phError, phAbortRef, phReqs,
                   phChanges, searchVars, geoVars, histVars, wxVars, hcVars>>

\* the card mounted without a place
PhInit == SearchInit /\ GeoIdle /\ HistIdle /\ WxIdle /\ HcIdle /\ PhIdle

PhNext ==
    \/ \E pl \in PhPlaces : PhPlaceChange(pl)
    \/ \E r \in 1..Len(phReqs), status \in PhStatuses, photos \in PhotoLists :
          PhFetchResolves(r, status, photos)
    \/ \E r \in 1..Len(phReqs) : PhFetchRejects(r)
    \/ \E delta \in {-1, 1} : PhMove(delta)

SpecPhotos == PhInit /\ [][PhNext]_vars

(***************************************************************************)
(* Vocabulary of the properties.                                           *)
(***************************************************************************)
Issued == 1..Len(reqs)

\* request r has not resolved yet
Unresolved(r) == reqs[r].phase # "done"

\* the authoritative request: the most recently issued one, not cancelled
Authoritative(r) == r = Len(reqs) /\ ~reqs[r].aborted

\* the callback of request r ends in this step
Resolves(r) == r \in Issued /\ Unresolved(r) /\ reqs'[r].phase = "done"

\* the steps in which a promise of a request settles
SettleKinds == {"FetchResolves", "FetchRejects", "JsonResolves", "JsonRejects"}

\* the SuggestionState an outcome other than the cancellation asks for
Produced(out) ==
    IF out.kind = "400"
    THEN [results |-> <<>>, isOpen |-> FALSE, isLoading |-> FALSE,
          error |-> "Type at least 2 letters."]
    ELSE IF out.kind = "404"
    THEN [results |-> <<>>, isOpen |-> TRUE, isLoading |-> FALSE, error |-> NullError]
    ELSE IF out.kind = "notok"
    THEN [results |-> <<>>, isOpen |-> TRUE, isLoading |-> FALSE,
          error |-> "Search failed (" \o ToString(out.status) \o ")."]
    ELSE IF out.kind = "ok"
    THEN [results |-> out.data, isOpen |-> TRUE, isLoading |-> FALSE,
          error |-> NullError]
    ELSE [results |-> <<>>, isOpen |-> TRUE, isLoading |-> FALSE,
          error |-> "Network error. Please try again."]

(***************************************************************************)
(* C1  Last-issued-wins.  When a request resolves while a newer one has    *)
(* been issued, its outcome leaves the SuggestionState as it is, whatever  *)
(* the network delivered for it; the outcome of the most recently issued   *)
(* request, unless it is the cancellation, sets the SuggestionState to the *)
(* state of that outcome alone.  So once A and B have both resolved the    *)
(* state is B's, in either order of resolution.                            *)
(***************************************************************************)
C1_LastIssuedWins ==
    [][\A r \in Issued :
          Resolves(r) =>
             IF r = Len(reqs) /\ reqs'[r].out.kind # "abort"
             THEN SuggestionState' = Produced(reqs'[r].out)
             ELSE UNCHANGED <<results, isOpen, isLoading, error>>]_vars

\* request 1 (A) resolves after request 2 (B) has applied a non-empty list:
\* the network answered A although it was aborted, and the state is B's
C1_Witness ==
    /\ Len(reqs) = 2
    /\ lastEvent = <<"FetchResolves", 1>>
    /\ reqs[2].out.kind = "ok" /\ reqs[2].out.data # <<>>
    /\ SuggestionState = Produced(reqs[2].out)

(***************************************************************************)
(* C2  Debounce coalescing.  A Query change issues no request and leaves   *)
(* exactly one pending debounce timer, for the new Query, when that has at *)
(* least 2 trimmed characters (the timer of the previous change is gone);  *)
(* a request is issued only by the firing of that single timer, one        *)
(* request per firing, with q the current Query, and no timer is left to   *)
(* fire again.  So a burst of changes, each arriving before the previous   *)
(* timer fired, issues one request, for the last Query of the burst.       *)
(***************************************************************************)
C2_DebounceCoalescing ==
    /\ [](\A t \in timers : timers = {t} /\ t.input = input /\ ~TooShort(input))
    /\ [][/\ input' # input =>
               /\ Len(reqs') = Len(reqs)
               /\ timers' = IF TooShort(input') THEN {}
                            ELSE {[id |-> timersMade', input |-> input']}
          /\ Len(reqs') # Len(reqs) =>
               /\ Len(reqs') = Len(reqs) + 1
               /\ DecodeQueryParam(reqs'[Len(reqs')].q) = input
               /\ timers # {} /\ timers' = {}]_vars

\* "Pa" then "Par" before the timer of "Pa" fired: two timers were created,
\* one request was issued, for "Par"
C2_Witness ==
    /\ timersMade = 2
    /\ Len(reqs) = 1
    /\ lastEvent = <<"TimerFire", 1>>
    /\ input = <<"P", "a", "r">>
    /\ DecodeQueryParam(reqs[1].q) = <<"P", "a", "r">>

(***************************************************************************)
(* C3  Threshold suppression.  While the Query has fewer than 2 trimmed    *)
(* characters the SuggestionState is results=[], isOpen=false,             *)
(* isLoading=false, error=null, no debounce timer is pending and every     *)
(* unresolved request is cancelled; no request is issued in a step that    *)
(* ends with such a Query.                                                 *)
(***************************************************************************)
C3_ThresholdSuppression ==
    /\ [](Len(Trim(input)) < 2 =>
            /\ results = <<>> /\ isOpen = FALSE /\ isLoading = FALSE
            /\ error = NullError
            /\ timers = {}
            /\ \A r \in Issued : Unresolved(r) => reqs[r].aborted)
    /\ [][Len(Trim(input')) < 2 => Len(reqs') = Len(reqs)]_vars

\* the Query is " P " (three characters, one after trimming) and the network
\* has answered the request that was in flight when the Query became short
C3_Witness ==
    /\ input = <<" ", "P", " ">>
    /\ Len(reqs) = 1
    /\ lastEvent = <<"JsonResolves", 1>>
    /\ reqs[1].out.kind = "abort"
    /\ SuggestionState =
         [results |-> <<>>, isOpen |-> FALSE, isLoading |-> FALSE, error |-> NullError]

(***************************************************************************)
(* C4  Cancellation on unmount.  Once the component is unmounted no        *)
(* debounce timer is pending and every unresolved request is cancelled;    *)
(* no request is issued after unmount, and no step of a debounce timer or  *)
(* of a request changes results, isOpen, isLoading or error after unmount. *)
(***************************************************************************)
C4_UnmountCancels ==
    /\ [](~mounted =>
            /\ timers = {}
            /\ \A r \in Issued : Unresolved(r) => reqs[r].aborted)
    /\ [][~mounted /\ (reqs' # reqs \/ timers' # timers) =>
            /\ Len(reqs') = Len(reqs)
            /\ UNCHANGED <<results, isOpen, isLoading, error>>]_vars

\* the body of a request that was in flight at unmount arrives after unmount,
\* and the state still shows the loading of before the unmount
C4_Witness ==
    /\ ~mounted
    /\ lastEvent = <<"JsonResolves", Len(reqs)>>
    /\ reqs[Len(reqs)].out.kind = "abort"
    /\ isLoading

(***************************************************************************)
(* C5  Not-found is not an error.  When the authoritative request resolves *)
(* with status 404 the SuggestionState becomes results=[], isOpen=true,    *)
(* isLoading=false, error=null.                                            *)
(***************************************************************************)
C5_NotFoundIsNotError ==
    [][\A r \in Issued :
          FetchResolves(r, 404) /\ Authoritative(r) =>
             /\ results' = <<>> /\ isOpen' = TRUE /\ isLoading' = FALSE
             /\ error' = NullError]_vars

\* a 404 answer replaces the non-empty results of the request before
C5_Witness ==
    /\ Len(reqs) = 2
    /\ reqs[1].out.kind = "ok" /\ reqs[1].out.data # <<>>
    /\ lastEvent = <<"FetchResolves", 2>>
    /\ reqs[2].out.kind = "404"
    /\ results = <<>> /\ isOpen /\ ~isLoading /\ error = NullError

(***************************************************************************)
(* C6  handlePick(place) sets the Query to the label made of city, region  *)
(* (left out when null, undefined or empty) and country joined by ", ",    *)
(* sets isOpen=false and calls onSelect exactly once, with that place.     *)
(***************************************************************************)
\* the label the claim describes, for a place with a city and a country name
ExpectedLabel(p) ==
    p.city
    \o (IF p.region.tag = "string" /\ p.region.str # <<>>
        THEN <<",", " ">> \o p.region.str ELSE <<>>)
    \o <<",", " ">> \o p.country

C6_HandlePick ==
    [][\A p \in Elements(results) :
          handlePick(p) =>
             /\ input' = ExpectedLabel(p)
             /\ isOpen' = FALSE
             /\ selected' = Append(selected, p)]_vars

\* the place with the empty region was picked: its label has no empty part
C6_Witness ==
    /\ lastEvent = <<"handlePick", 0>>
    /\ selected = <<PlaceD>>
    /\ input = <<"P", "P", ",", " ", "F">>
    /\ ~isOpen

(***************************************************************************)
(* C7  When the authoritative request resolves successfully with a list of *)
(* places, results becomes exactly that list, in the order received and    *)
(* with its duplicates, with isOpen=true, isLoading=false, error=null.     *)
(***************************************************************************)
C7_SuccessKeepsList ==
    [][\A r \in Issued : \A data \in ResultLists :
          JsonResolves(r, data) /\ Authoritative(r) =>
             /\ results' = data
             /\ isOpen' = TRUE /\ isLoading' = FALSE /\ error' = NullError]_vars

\* a list of two distinct places was applied as received
C7_Witness ==
    /\ lastEvent = <<"JsonResolves", Len(reqs)>>
    /\ reqs[Len(reqs)].out.kind = "ok"
    /\ results = <<PlaceB, PlaceA>>
    /\ isOpen /\ ~isLoading /\ error = NullError

(***************************************************************************)
(* C8  As claimed: isLoading=true implies that the authoritative request   *)
(* (most recently issued, not cancelled) exists and has not resolved.      *)
(***************************************************************************)
C8_LoadingOnlyWhileRequest ==
    isLoading => \E r \in Issued : Authoritative(r) /\ Unresolved(r)

(***************************************************************************)
(* C8  As amended: while the component is mounted, isLoading=true implies  *)
(* that a debounce timer is pending or that the authoritative request has  *)
(* not resolved.                                                           *)
(***************************************************************************)
C8_LoadingWhileTimerOrRequest ==
    mounted /\ isLoading =>
        \/ timers # {}
        \/ \E r \in Issued : Authoritative(r) /\ Unresolved(r)

\* loading during the debounce that follows a first, cancelled, request
C8_Witness ==
    /\ mounted /\ isLoading
    /\ timers # {}
    /\ Len(reqs) = 1 /\ reqs[1].aborted

(***************************************************************************)
(* C9  error non-null implies results empty: a step that sets an error     *)
(* leaves results empty, and a step that sets non-empty results leaves     *)
(* error null.                                                             *)
(***************************************************************************)
C9_ErrorExcludesResults ==
    /\ [](error # NullError => results = <<>>)
    /\ [][/\ (error' # error /\ error' # NullError) => results' = <<>>
          /\ (results' # results /\ results' # <<>>) => error' = NullError]_vars

\* the second request fails after the first one had delivered places
C9_Witness ==
    /\ Len(reqs) = 2
    /\ reqs[1].out.kind = "ok" /\ reqs[1].out.data # <<>>
    /\ lastEvent = <<"FetchResolves", 2>>
    /\ reqs[2].out.kind = "notok"
    /\ error # NullError /\ results = <<>>

(***************************************************************************)
(* C10  At most one issued request is both unresolved and not cancelled:   *)
(* every request but the most recently issued one is cancelled, and after  *)
(* a Query change every issued request is.                                 *)
(***************************************************************************)
C10_OneLiveRequest ==
    /\ [](/\ Cardinality({r \in Issued : Unresolved(r) /\ ~reqs[r].aborted}) <= 1
          /\ \A r \in Issued : r < Len(reqs) => reqs[r].aborted)
    /\ [][input' # input => \A r \in Issued : reqs'[r].aborted]_vars

\* two requests in flight, the first cancelled and the second not
C10_Witness ==
    /\ Len(reqs) = 2
    /\ Unresolved(1) /\ reqs[1].aborted
    /\ Unresolved(2) /\ ~reqs[2].aborted

(***************************************************************************)
(* C11  When the authoritative request ends with a status that is neither  *)
(* 2xx nor 400 nor 404, or with a failure of fetch() or res.json() that is *)
(* not the cancellation, the SuggestionState becomes results=[],           *)
(* isOpen=true, isLoading=false and error "Search failed (<status>)." or   *)
(* "Network error. Please try again."; the callback ends there.            *)
(***************************************************************************)
\* the message the claim gives for an HTTP status
FailureMessage(status) ==
    IF status = 500 THEN "Search failed (500)."
    ELSE IF status = 502 THEN "Search failed (502)."
    ELSE "Search failed (?)."

C11_FailureIsLocal ==
    [][\A r \in Issued :
          /\ \A status \in Statuses \ {400, 404} :
                (status < 200 \/ status > 299)
                /\ FetchResolves(r, status) /\ Authoritative(r) =>
                   /\ results' = <<>> /\ isOpen' = TRUE /\ isLoading' = FALSE
                   /\ error' = FailureMessage(status)
                   /\ reqs'[r].phase = "done"
          /\ (FetchRejects(r) \/ JsonRejects(r)) /\ Authoritative(r) =>
                /\ results' = <<>> /\ isOpen' = TRUE /\ isLoading' = FALSE
                /\ error' = "Network error. Please try again."
                /\ reqs'[r].phase = "done"]_vars

\* a 500 answer replaced the places of the request before
C11_Witness ==
    /\ Len(reqs) = 2
    /\ reqs[1].out.kind = "ok" /\ reqs[1].out.data # <<>>
    /\ lastEvent = <<"FetchResolves", 2>>
    /\ reqs[2].out.kind = "notok" /\ reqs[2].out.status = 500
    /\ results = <<>> /\ isOpen /\ ~isLoading
    /\ error = "Search failed (500)."

(***************************************************************************)
(* C12  When a request ends with the cancellation signal (its controller   *)
(* was aborted), its callback leaves results, isOpen, isLoading and error  *)
(* unchanged: no error is surfaced.                                        *)
(***************************************************************************)
C12_AbortIsSilent ==
    [][\A r \in Issued :
          Resolves(r) /\ reqs[r].aborted =>
             /\ UNCHANGED <<results, isOpen, isLoading, error>>
             /\ reqs'[r].out.kind = "abort"]_vars

\* a keystroke superseded the request; the network answers it during the new
\* debounce, and the state still shows the loading of that keystroke
C12_Witness ==
    /\ mounted
    /\ Len(reqs) = 1
    /\ lastEvent = <<"FetchResolves", 1>>
    /\ reqs[1].out.kind = "abort"
    /\ timers # {}
    /\ isLoading /\ error = NullError

(***************************************************************************)
(* C13  An error never blocks typing: in every state of the mounted,       *)
(* focused component, with an error shown or not, every other Query value  *)
(* can be typed (as long as the model has a timer left to create), and a   *)
(* change to a Query with at least 2 trimmed characters sets               *)
(* isLoading=true and error=null and leaves exactly the new debounce timer *)
(* pending.                                                                *)
(***************************************************************************)
C13_ErrorNeverBlocksTyping ==
    /\ [](mounted /\ focused /\ timersMade < MaxTimers =>
             \A v \in TypedQueries \ {input} : ENABLED Type(v))
    /\ [][input' # input /\ Len(Trim(input')) >= 2 =>
             /\ isLoading' = TRUE /\ error' = NullError
             /\ timersMade' = timersMade + 1
             /\ timers' = {[id |-> timersMade', input |-> input']}]_vars

\* the first request failed and left its error in the open dropdown; the
\* next keystroke has started the second debounce and cleared the error
C13_Witness ==
    /\ lastEvent = <<"Type", 0>>
    /\ timersMade = 2 /\ Len(reqs) = 1
    /\ reqs[1].out.kind = "throw"
    /\ isOpen /\ isLoading /\ error = NullError
    /\ timers # {}

(***************************************************************************)
(* C16  A pick whose label differs from the input text issues no request   *)
(* itself and leaves one debounce timer pending, for the label; while the  *)
(* Query is still that label, the firing of the timer issues a request     *)
(* whose q is the label, and a 404 answer to it reopens the dropdown in    *)
(* the "No places found" state: isOpen=true, results=[], error=null,       *)
(* isLoading=false.                                                        *)
(***************************************************************************)
\* the Query is the label of the place picked last
QueryIsPickedLabel ==
    /\ selected # <<>>
    /\ input = ExpectedLabel(selected[Len(selected)])

C16_PickSearchesLabel ==
    [][/\ \A p \in Elements(results) :
             handlePick(p) /\ ExpectedLabel(p) # input =>
                /\ Len(reqs') = Len(reqs)
                /\ timers' = {[id |-> timersMade', input |-> ExpectedLabel(p)]}
       /\ QueryIsPickedLabel /\ Len(reqs') > Len(reqs) =>
             DecodeQueryParam(reqs'[Len(reqs')].q) = input
       /\ \A r \in Issued :
             QueryIsPickedLabel /\ FetchResolves(r, 404) /\ Authoritative(r) =>
                /\ isOpen' = TRUE /\ results' = <<>>
                /\ error' = NullError /\ isLoading' = FALSE]_vars

\* the place with the region was picked, the request for "P, R, F" was
\* answered 404 and the dropdown is open again, empty
C16_Witness ==
    /\ selected = <<PlaceB>>
    /\ input = <<"P", ",", " ", "R", ",", " ", "F">>
    /\ Len(reqs) = 2
    /\ DecodeQueryParam(reqs[2].q) = input
    /\ lastEvent = <<"FetchResolves", 2>>
    /\ reqs[2].out.kind = "404"
    /\ isOpen /\ results = <<>> /\ error = NullError /\ ~isLoading

(***************************************************************************)
(* C17  As claimed: right after handlePick the SuggestionState is          *)
(* results=[], isOpen=false, isLoading=false, error=null.                  *)
(***************************************************************************)
C17_PickResetsState ==
    lastEvent = <<"handlePick", 0>> =>
        /\ results = <<>> /\ isOpen = FALSE /\ isLoading = FALSE
        /\ error = NullError

(***************************************************************************)
(* C17  As amended: handlePick closes the dropdown and does not reset the  *)
(* rest: right after it isOpen=false, results is unchanged and error=null; *)
(* isLoading=true when the label differs from the previous Query (a new    *)
(* debounce has started) and false otherwise.                              *)
(***************************************************************************)
C17_PickClosesOnly ==
    [][\A p \in Elements(results) :
          handlePick(p) =>
             /\ isOpen' = FALSE
             /\ results' = results
             /\ error' = NullError
             /\ isLoading' = (ExpectedLabel(p) # input)]_vars

\* right after a pick: the list the place was picked from is still in
\* results and the search for the label is loading
C17_Witness ==
    /\ lastEvent = <<"handlePick", 0>>
    /\ selected # <<>>
    /\ selected[Len(selected)] \in Elements(results)
    /\ ~isOpen /\ isLoading /\ error = NullError

(***************************************************************************)
(* C20  Every suggestion request carries, as q, the Query that is current  *)
(* when it is issued, and count=5; every pending debounce timer is the     *)
(* timer of the current Query.                                             *)
(***************************************************************************)
C20_RequestCarriesCurrentQuery ==
    /\ [](\A t \in timers : t.input = input)
    /\ [][Len(reqs') > Len(reqs) =>
            /\ DecodeQueryParam(reqs'[Len(reqs')].q) = input
            /\ reqs'[Len(reqs')].count = 5
            /\ input' = input]_vars

\* the request for "Pa" was issued, then "Par" was typed and its request
\* issued: each carries the Query of its time
C20_Witness ==
    /\ Len(reqs) = 2
    /\ lastEvent = <<"TimerFire", 2>>
    /\ DecodeQueryParam(reqs[1].q) = <<"P", "a">>
    /\ DecodeQueryParam(reqs[2].q) = <<"P", "a", "r">>
    /\ input = <<"P", "a", "r">>
    /\ reqs[2].count = 5

(***************************************************************************)
(* C14  GET /api/geocode never answers 200 with an empty array: it answers *)
(* 400 when q is absent or has fewer than 2 trimmed characters, 502 when   *)
(* the upstream response is not ok, 404 when the normalized list is empty, *)
(* and 200 only with a non-empty list of places in upstream order.         *)
(***************************************************************************)
C14_GeocodeStatuses ==
    geoPc = "done" =>
        LET valid == geoReq.q.present /\ Len(Trim(geoReq.q.str)) >= 2
            raw == IF geoUpstream.isArray THEN geoUpstream.raw ELSE <<>>
        IN  /\ ~(geoRes.status = 200 /\ geoRes.places = <<>>)
            /\ ~valid => geoRes.status = 400
            /\ valid /\ geoUpstream.kind = "notok" => geoRes.status = 502
            /\ valid /\ geoUpstream.kind = "ok" /\ raw = <<>> => geoRes.status = 404
            /\ geoRes.status = 200 =>
                 /\ valid /\ geoUpstream.kind = "ok"
                 /\ Len(geoRes.places) = Len(raw)
                 /\ \A i \in 1..Len(raw) :
                       /\ geoRes.places[i].city = raw[i].name
                       /\ geoRes.places[i].latitude = raw[i].latitude

\* a valid q (" Pa ") for which the upstream has an empty results array
C14_Witness ==
    /\ geoPc = "done"
    /\ geoReq.q = Present(<<" ", "P", "a", " ">>)
    /\ geoUpstream = [kind |-> "ok", isArray |-> TRUE, raw |-> <<>>]
    /\ geoRes.status = 404

(***************************************************************************)
(* C15  The count forwarded to the upstream geocoder lies within 1..10     *)
(* for every value of the count parameter, and is 5 when the parameter is  *)
(* absent or not a number.                                                 *)
(***************************************************************************)
\* the count texts of the domain that are not numbers
NonNumericCounts == { <<"a", "b", "c">>, <<"5", "x">> }

C15_CountClamped ==
    geoForwarded.sent =>
        /\ geoForwarded.count \in {ToString(n) : n \in 1..10}
        /\ (~geoReq.count.present \/ geoReq.count.str \in NonNumericCounts) =>
              geoForwarded.count = "5"

\* count=99999 is forwarded as 10
C15_Witness ==
    /\ geoForwarded.sent
    /\ geoReq.count = Present(<<"9", "9", "9", "9", "9">>)
    /\ geoForwarded.count = "10"

(***************************************************************************)
(* C18  GET /api/history returns at most 10 items, the stored entries with *)
(* the greatest viewedAt, newest first, after any sequence of successful   *)
(* POST calls; each successful POST adds exactly one entry.                *)
(***************************************************************************)
\* the answer of a GET is the newest entries of the store, newest first
NewestFirst ==
    histRes.op = "GET" /\ histRes.status = 200 =>
        LET items == histRes.items
            n == Len(histStore)
            returned == {items[i].id : i \in 1..Len(items)}
        IN  /\ Len(items) <= HistoryLimit
            /\ Len(items) = IF n < HistoryLimit THEN n ELSE HistoryLimit
            /\ \A i \in 1..Len(items) : \E j \in 1..n : histStore[j] = items[i]
            /\ \A i, k \in 1..Len(items) : i # k => items[i].id # items[k].id
            /\ \A i \in 1..(Len(items) - 1) : items[i].viewedAt >= items[i + 1].viewedAt
            /\ \A j \in 1..n : histStore[j].id \notin returned =>
                  \A i \in 1..Len(items) : items[i].viewedAt >= histStore[j].viewedAt

\* the store changes only by a POST answered 201, which appends one entry
PostAddsOne ==
    histStore' # histStore =>
        /\ histRes'.op = "POST" /\ histRes'.status = 201
        /\ Len(histStore') = Len(histStore) + 1
        /\ SubSeq(histStore', 1, Len(histStore)) = histStore
        /\ histRes'.items = <<histStore'[Len(histStore')]>>
        /\ histStore'[Len(histStore')].city = <<"P">>
        /\ histStore'[Len(histStore')].viewedAt = histClock

C18_HistoryNewestTen == []NewestFirst /\ [][PostAddsOne]_vars

\* eleven entries, the two oldest with the same viewedAt: ten are returned,
\* the last of them as old as the one left out
C18_Witness ==
    /\ histRes.op = "GET" /\ histRes.status = 200
    /\ Len(histStore) = 11
    /\ Len(histRes.items) = 10
    /\ histStore[1].viewedAt = histStore[2].viewedAt
    /\ histStore[3].viewedAt > histStore[2].viewedAt
    /\ histRes.items[10].viewedAt = histStore[1].viewedAt

(***************************************************************************)
(* C19  In history hour mode the 24-entry window is the 12 hours before    *)
(* the current hour, then the current hour and the hours after it: the     *)
(* "now" entry sits at index 12 of the window.                             *)
(***************************************************************************)
\* the card shows a history window around a current hour found in the list
HistoryWindowShown ==
    /\ wxPc = "rendered"
    /\ wxMode = "history"
    /\ wxCurrent.present
    /\ \E i \in 1..Len(wxHours) : wxHours[i] = wxCurrent.time

C19_NowAtIndex12 ==
    HistoryWindowShown =>
        /\ Len(wxWindow) = 24
        /\ wxNowIndex = 12
        /\ wxWindow[12 + 1] = DefinedHour(wxCurrent.time)

\* what the code does there: "now" sits at index 6
C19_NowAtIndexBack ==
    HistoryWindowShown =>
        /\ Len(wxWindow) = 24
        /\ wxNowIndex = 6
        /\ wxWindow[6 + 1] = DefinedHour(wxCurrent.time)

C19_Witness ==
    /\ HistoryWindowShown
    /\ Len(wxHours) = 24
    /\ wxCurrent.time = WxEpoch + 14
    /\ wxWindow[7] = DefinedHour(WxEpoch + 14)
    /\ wxWindow[13] = DefinedHour(WxEpoch + 20)

(***************************************************************************)
(* C21  Dropdown visibility starts Closed and goes Closed -> Open exactly  *)
(* on a debounce firing for a Query of at least 2 trimmed characters or on *)
(* focus regained while results is non-empty; no other event opens it.     *)
(***************************************************************************)
\* the step is the firing of a debounce timer (its Query has at least 2
\* trimmed characters)
DebounceFires ==
    /\ lastEvent'[1] = "TimerFire"
    /\ Len(reqs') = Len(reqs) + 1
    /\ Len(Trim(DecodeQueryParam(reqs'[Len(reqs')].q))) >= 2

\* the step is a focus event with results non-empty
FocusWithResults ==
    /\ lastEvent'[1] = "handleFocus"
    /\ focused' /\ ~focused
    /\ Len(results) > 0

\* the step applies the outcome of a request that was not cancelled, other
\* than a 400
OutcomeApplied ==
    /\ lastEvent'[1] \in SettleKinds
    /\ \E r \in Issued :
          /\ lastEvent'[2] = r
          /\ Resolves(r)
          /\ Len(Trim(DecodeQueryParam(reqs[r].q))) >= 2
          /\ reqs'[r].out.kind \in {"404", "notok", "ok", "throw"}

StartsClosed == lastEvent = <<"init", 0>> => ~isOpen

\* the claim as stated: the dropdown opens at the debounce firing
C21_OpensOnDebounceFiring ==
    /\ []StartsClosed
    /\ [][~isOpen => (isOpen' <=> (DebounceFires \/ FocusWithResults))]_vars

\* the dropdown opens when the outcome of the request is applied; the
\* debounce firing leaves it closed
C21_OpensOnOutcome ==
    /\ []StartsClosed
    /\ [][~isOpen => (isOpen' <=> (OutcomeApplied \/ FocusWithResults))]_vars
    /\ [][DebounceFires => isOpen' = isOpen]_vars

\* the first request brings a list and opens the dropdown
C21_Witness ==
    /\ Len(reqs) = 1
    /\ lastEvent = <<"JsonResolves", 1>>
    /\ reqs[1].out.kind = "ok"
    /\ isOpen
    /\ results = <<PlaceB, PlaceA>>

(***************************************************************************)
(* C22  On focus, if results is non-empty the dropdown is reopened and any *)
(* pending blur-close timer is cancelled, while Query, results, isLoading  *)
(* and error are unchanged and no request or debounce timer is started; if *)
(* results is empty, focus does not open the dropdown.                     *)
(***************************************************************************)
\* the step is a focus event
FocusStep == lastEvent'[1] = "handleFocus" /\ ~focused /\ focused'

C22_FocusReopens ==
    [][FocusStep =>
          /\ Len(results) > 0 => isOpen' /\ blurTimers' = {}
          /\ Len(results) = 0 => isOpen' = isOpen
          /\ UNCHANGED <<input, results, isLoading, error>>
          /\ UNCHANGED <<reqs, timers, timersMade, abortRef>>]_vars

\* focus regained after a blur, with a list: the dropdown is open, no close
\* is pending, nothing was fetched again
C22_Witness ==
    /\ lastEvent = <<"handleFocus", 0>>
    /\ blursMade = 1
    /\ blurTimers = {}
    /\ Len(results) > 0
    /\ isOpen
    /\ Len(reqs) = 1 /\ timers = {}

(***************************************************************************)
(* C23  On blur the dropdown is not closed immediately: isOpen is set to   *)
(* false only when the 100 ms grace timer fires, a pick during the grace   *)
(* window still takes effect (Query set to the label, onSelect invoked),   *)
(* and a focus event before the timer fires cancels the pending close.     *)
(***************************************************************************)
\* the step is a blur event
BlurStep == lastEvent'[1] = "handleBlur" /\ focused /\ ~focused'

\* the grace window: a blur timer is pending
InGrace == blurTimers # {}

C23_BlurIsDeferred ==
    /\ [][BlurStep => isOpen' = isOpen /\ blurTimers' = {blursMade'}]_vars
    /\ [][\A b \in blurTimers : BlurTimerFire(b) => ~isOpen']_vars
    /\ [](mounted /\ InGrace /\ Len(selected) < MaxPicks /\ timersMade < MaxTimers =>
             \A p \in Elements(results) : Rendered(p) => ENABLED handlePick(p))
    /\ [][InGrace /\ lastEvent'[1] = "handlePick" /\ selected' # selected =>
             \E p \in Elements(results) :
                /\ input' = ExpectedLabel(p)
                /\ selected' = Append(selected, p)]_vars
    /\ [][FocusStep => blurTimers' = {}]_vars
    /\ [](focused => blurTimers = {})

\* a place was picked while the blur timer was pending
C23_Witness ==
    /\ lastEvent = <<"handlePick", 0>>
    /\ ~focused
    /\ blurTimers = {1}
    /\ selected = <<PlaceB>>
    /\ input = <<"P", ",", " ", "R", ",", " ", "F">>

(***************************************************************************)
(* C24  For every Query that passes the client-side threshold of Search    *)
(* (at least 2 characters after trimming), the request sent to GET         *)
(* /api/geocode is never rejected with 400: the server's validation of the *)
(* decoded, trimmed q accepts exactly the queries the client lets through. *)
(***************************************************************************)
\* the route would reject the URL the client builds for the text v
ServerRejects(v) ==
    GeoBadRequest(GeoQ(Present(DecodeQueryParam(EncodeURIComponent(v)))))

C24_ThresholdsAgree ==
    /\ geoRes.status # 400
    /\ \A r \in Issued : reqs[r].out.kind # "400"
    /\ \A r \in Issued : Len(Trim(DecodeQueryParam(reqs[r].q))) >= 2
    /\ Len(Trim(input)) >= 2 <=> ~ServerRejects(input)

\* the query " Pa" passed the threshold, the route accepted it and the
\* answer has reached the client
C24_Witness ==
    /\ input = <<" ", "P", "a">>
    /\ Len(reqs) = 1
    /\ geoPc = "done" /\ geoReq = UrlParams(1)
    /\ geoRes.status = 200
    /\ reqs[1].out.kind = "ok"
    /\ Len(results) > 0

(***************************************************************************)
(* C25  If the Search component is unmounted while a blur grace timer is   *)
(* pending, that timer is cancelled, so isOpen is not mutated after        *)
(* teardown.                                                               *)
(***************************************************************************)
C25_UnmountCancelsBlurTimer ==
    /\ [](~mounted => blurTimers = {})
    /\ [][~mounted => isOpen' = isOpen]_vars

\* what the code does: the timer outlives the component and its callback
\* runs setIsOpen(false) after the unmount
C25_BlurTimerOutlivesUnmount ==
    [][lastEvent'[1] = "Unmount" /\ mounted => blurTimers' = blurTimers]_vars

C25_Witness ==
    /\ ~mounted
    /\ lastEvent = <<"BlurTimerFire", 1>>
    /\ ~isOpen
    /\ Len(results) > 0

(***************************************************************************)
(* C26  Once the input has been blurred and the blur grace timer has       *)
(* fired, isOpen stays false until the next focus event: the outcome of a  *)
(* request that was debouncing or in flight at blur time does not reopen   *)
(* the dropdown while the input is unfocused.                              *)
(***************************************************************************)
\* the input was blurred last and the grace timer of that blur has fired
BlurredAndClosed ==
    /\ mounted /\ ~focused
    /\ blursMade > 0 /\ blurTimers = {}
    /\ ~isOpen

C26_StaysClosedUntilFocus ==
    [][BlurredAndClosed /\ isOpen' => focused']_vars

\* the answer to the first request has opened the dropdown of the blurred
\* input
C26_Witness ==
    /\ mounted /\ ~focused
    /\ blursMade > 0 /\ blurTimers = {}
    /\ lastEvent = <<"JsonResolves", 1>>
    /\ isOpen
    /\ Len(results) > 0

(***************************************************************************)
(* C27  Loading always ends: if Query stops changing and every issued      *)
(* request eventually resolves or rejects, then eventually isLoading is    *)
(* false; no sequence of keystrokes, picks, focus/blur events and aborts   *)
(* leaves isLoading=true forever with no timer pending and no              *)
(* authoritative request outstanding.                                      *)
(***************************************************************************)
\* isLoading with nothing left that could end it
LoadingStuck ==
    /\ isLoading
    /\ timers = {}
    /\ \A r \in Issued : reqs[r].phase = "done" \/ reqs[r].aborted \/ r # Len(reqs)

C27_LoadingEnds ==
    /\ [](mounted /\ ~LoadingStuck)
    /\ [](isLoading => <>~isLoading)

\* the second request was aborted by a keystroke and the third has ended the
\* loading
C27_Witness ==
    /\ mounted
    /\ Len(reqs) = 2
    /\ reqs[1].out.kind = "abort"
    /\ reqs[2].phase = "done" /\ reqs[2].out.kind = "404"
    /\ ~isLoading /\ timers = {}

(***************************************************************************)
(* C28  After the selected place changes to P, once the POST and the GET   *)
(* that HistoryCard issues for that change have both completed             *)
(* successfully (and after several rapid selections, once all their        *)
(* requests have completed), the displayed history list contains the entry *)
(* for the most recently selected place as its newest item.                *)
(***************************************************************************)
\* a place is selected and every request of the card has completed
\* successfully
HcSettled ==
    /\ ~hcPlace.none
    /\ \A m \in 1..Len(hcReqs) :
          /\ hcReqs[m].phase = "done"
          /\ hcReqs[m].status = IF hcReqs[m].op = "POST" THEN 201 ELSE 200

\* the document the POST of the last selection created
LastPosted == hcReqs[Len(hcReqs) - 1].doc

C28_NewestIsLastSelected ==
    HcSettled =>
        /\ hcItems.defined
        /\ hcItems.list # <<>>
        /\ hcItems.list[1].id = LastPosted

\* one selection, all requests completed, and the list shown is empty: the
\* route handled the GET before the POST
C28_Witness ==
    /\ HcSettled
    /\ Len(hcReqs) = 3
    /\ Len(histStore) = 1
    /\ hcItems = List(<<>>)

(***************************************************************************)
(* C29  In PhotosCard, whenever items is a non-empty list the gallery      *)
(* index satisfies 0 <= idx < items.length, after any interleaving of      *)
(* place changes, photo responses and move(+1)/move(-1) calls, so the      *)
(* counter idx+1/items.length never exceeds the list length.               *)
(***************************************************************************)
C29_IdxInRange ==
    phItems.defined /\ Len(phItems.list) > 0 =>
        0 <= phIdx /\ phIdx < Len(phItems.list)

\* the index is never negative, and it is in range whenever no answer has
\* replaced the list since the last place change or move
C29_IdxNeverNegative == phIdx >= 0

\* the counter shows 3/1: the list of the new place is shorter than the
\* index reached on the old list while loading
C29_Witness ==
    /\ phItems = List(<<1>>)
    /\ phIdx = 2
    /\ ~phLoading
    /\ phChanges = 2

(***************************************************************************)
(* C30  In WeatherCard, for every non-empty hourly list, every position of *)
(* the current hour in it and either hour mode, windowHours has exactly 24 *)
(* entries and each entry is an element of the hourly list: the index      *)
(* (i + length) % length of wrapGet lies in 0..length-1, no entry is       *)
(* undefined.                                                              *)
(***************************************************************************)
\* the card shows a window around a current hour found in the list
WindowShown ==
    /\ wxPc = "rendered"
    /\ wxCurrent.present
    /\ \E i \in 1..Len(wxHours) : wxHours[i] = wxCurrent.time

C30_WindowEntriesDefined ==
    WindowShown =>
        /\ Len(wxWindow) = 24
        /\ \A k \in 1..Len(wxWindow) :
              /\ wxWindow[k].defined
              /\ \E i \in 1..Len(wxHours) : wxWindow[k].time = wxHours[i]

\* with a full day of hours the index never leaves the list
C30_FullDayEntriesDefined ==
    WindowShown /\ Len(wxHours) = 24 =>
        /\ Len(wxWindow) = 24
        /\ \A k \in 1..Len(wxWindow) : wxWindow[k].defined

\* four hours, the current hour first, history mode: the window starts with
\* an undefined entry
C30_Witness ==
    /\ WindowShown
    /\ wxMode = "history"
    /\ Len(wxHours) = 4
    /\ wxCurrent.time = WxEpoch
    /\ ~wxWindow[1].defined

====
